---- MODULE Spec2Model ----
(***************************************************************************)
(* A model of the Google Drive MCP server (src/src/index.ts): the four     *)
(* protocol request handlers registered on the single Server instance, the *)
(* remote Drive calls they await, the three serving modes (stdio pipe, SSE *)
(* push channel, WebSocket) that connect transports to that Server, and    *)
(* the life of the process around them: the main logic that selects the    *)
(* mode, the OAuth flow and its descriptor file, the credential setup,     *)
(* the listeners' plain routes, the socket adapter and the termination     *)
(* signals.                                                                *)
(*                                                                         *)
(* Strings whose characters matter are sequences: a search query is a      *)
(* sequence of characters, a mimeType or a URI is a sequence of chunks     *)
(* whose concatenation is the string (so that startsWith is a prefix test  *)
(* and replace removes a chunk).  Texts that are only built and compared   *)
(* are TLA+ strings.                                                       *)
(***************************************************************************)
EXTENDS Naturals, Sequences, FiniteSets, TLC

(***************************************************************************)
(* Bounds of the model.                                                    *)
(***************************************************************************)
MaxQueryLen == 2
MaxFiles == 2
MaxConns == 2
MaxRequests == 2
MaxPipeRequests == 3
MaxDirectory == 4
MaxPage == 3
MaxStartRequests == 1
MaxRemoteRequests == 2
MaxLifeRequests == 2
MaxSignals == 2
MaxServeRequests == 1
MaxAdapterCalls == 2

(***************************************************************************)
(* Optional values: a JavaScript value that may be undefined.              *)
(***************************************************************************)
None == [some |-> FALSE]
Some(v) == [some |-> TRUE, v |-> v]

(***************************************************************************)
(* Query strings: sequences over a backslash, a single quote and a plain   *)
(* character, up to MaxQueryLen characters.                                *)
(***************************************************************************)
Backslash == "\\"
Quote == "'"
QueryChars == {Backslash, Quote, "a"}

RECURSIVE SeqsUpTo(_, _)
SeqsUpTo(S, n) ==
  IF n = 0 THEN {<<>>}
  ELSE LET shorter == SeqsUpTo(S, n - 1)
       IN  shorter \cup {Append(s, x) : s \in shorter, x \in S}

QueryStrings == SeqsUpTo(QueryChars, MaxQueryLen)

(***************************************************************************)
(* String.prototype.replace with a global one-character pattern: every     *)
(* occurrence of ch in s is replaced by rep, left to right.                *)
(***************************************************************************)
RECURSIVE ReplaceAll(_, _, _)
ReplaceAll(s, ch, rep) ==
  IF s = <<>> THEN <<>>
  ELSE (IF Head(s) = ch THEN rep ELSE <<Head(s)>>) \o ReplaceAll(Tail(s), ch, rep)

\* A variant that escapes the quotes before the backslashes.
escapedQueryQuotesFirst(userQuery) ==
  ReplaceAll(ReplaceAll(userQuery, Quote, <<Backslash, Quote>>),
             Backslash, <<Backslash, Backslash>>)

\* userQuery.replace(/\\/g, "\\\\").replace(/'/g, "\\'")
escapedQuery(userQuery) ==
  ReplaceAll(ReplaceAll(userQuery, Backslash, <<Backslash, Backslash>>),
             Quote, <<Backslash, Quote>>)

\* `fullText contains '${escapedQuery}'`
QueryPrefix == <<"fullText contains ", Quote>>
formattedQuery(userQuery) == QueryPrefix \o escapedQuery(userQuery) \o <<Quote>>

(***************************************************************************)
(* mimeTypes.  The chunks are cut so that one mimeType of the universe is  *)
(* a prefix of another as a string exactly when it is as a chunk sequence. *)
(***************************************************************************)
GoogleApps == "application/vnd.google-apps"
MimeDocument == <<GoogleApps, ".document">>
MimeSpreadsheet == <<GoogleApps, ".spreadsheet">>
MimePresentation == <<GoogleApps, ".presentation">>
MimeDrawing == <<GoogleApps, ".drawing">>
MimeFolder == <<GoogleApps, ".folder">>
MimeTextPlain == <<"text/", "plain">>
MimeTextMarkdown == <<"text/", "markdown">>
MimeTextCsv == <<"text/", "csv">>
MimeJson == <<"application/json">>
MimeJson5 == <<"application/json", "5">>
MimePng == <<"image/", "png">>
MimePdf == <<"application/pdf">>
MimeOctetStream == <<"application/octet-stream">>

\* The mimeTypes the remote directory reports for a file.
RemoteMimes ==
  {MimeDocument, MimeSpreadsheet, MimePresentation, MimeDrawing, MimeFolder,
   <<GoogleApps>>, MimeTextPlain, MimeTextCsv, MimeJson, MimeJson5, MimePng,
   MimePdf}

\* String.prototype.startsWith
StartsWith(s, prefix) ==
  Len(prefix) <= Len(s) /\ SubSeq(s, 1, Len(prefix)) = prefix

\* The mimeType as one string, for display.
RECURSIVE MimeString(_)
MimeString(m) == IF m = <<>> THEN "" ELSE Head(m) \o MimeString(Tail(m))

(***************************************************************************)
(* Resource URIs: `gdrive:///` followed by the file id, as chunks.         *)
(***************************************************************************)
UriScheme == "gdrive:///"
FileIds == {"f1", "f2"}
ResourceUri(id) == <<UriScheme, id>>

\* String.prototype.replace with a string pattern: the first occurrence only.
RECURSIVE ReplaceFirst(_, _)
ReplaceFirst(s, chunk) ==
  IF s = <<>> THEN <<>>
  ELSE IF Head(s) = chunk THEN Tail(s)
  ELSE <<Head(s)>> \o ReplaceFirst(Tail(s), chunk)

\* request.params.uri.replace("gdrive:///", "")
fileId(uri) == ReplaceFirst(uri, UriScheme)

(***************************************************************************)
(* read-resource: the export format of a native document, and the content  *)
(* item of the response.                                                   *)
(***************************************************************************)
\* file.data.mimeType?.startsWith("application/vnd.google-apps")
IsGoogleApps(mimeOpt) == mimeOpt.some /\ StartsWith(mimeOpt.v, <<GoogleApps>>)

\* A variant whose drawing case falls through to the default.
exportMimeTypeNoDrawing(mime) ==
  CASE mime = MimeDocument -> MimeTextMarkdown
    [] mime = MimeSpreadsheet -> MimeTextCsv
    [] OTHER -> MimeTextPlain

\* switch (file.data.mimeType) { ... }
exportMimeType(mime) ==
  CASE mime = MimeDocument -> MimeTextMarkdown
    [] mime = MimeSpreadsheet -> MimeTextCsv
    [] mime = MimePresentation -> MimeTextPlain
    [] mime = MimeDrawing -> MimePng
    [] OTHER -> MimeTextPlain

\* The payloads the remote returns for an export or a download.
Payloads == {"payload1", "payload2"}
\* Buffer.from(data).toString("utf-8") and .toString("base64")
Utf8(data) == <<"utf-8", data>>
Base64(data) == <<"base64", data>>

\* file.data.mimeType || "application/octet-stream"
downloadMimeType(mimeOpt) ==
  IF mimeOpt.some /\ mimeOpt.v # <<>> THEN mimeOpt.v ELSE MimeOctetStream

\* mimeType.startsWith("text/") || mimeType === "application/json"
IsTextual(mime) == StartsWith(mime, <<"text/">>) \/ mime = MimeJson

\* The content item of the export branch.
exportContents(uri, mime, data) ==
  <<[uri |-> uri, mimeType |-> mime, text |-> <<data>>]>>

\* A variant of the download branch that fills both payload fields.
downloadContentsBoth(uri, mime, data) ==
  <<[uri |-> uri, mimeType |-> mime, text |-> Utf8(data), blob |-> Base64(data)]>>

\* The content item of the download branch.
downloadContents(uri, mime, data) ==
  IF IsTextual(mime)
  THEN <<[uri |-> uri, mimeType |-> mime, text |-> Utf8(data)]>>
  ELSE <<[uri |-> uri, mimeType |-> mime, blob |-> Base64(data)]>>

(***************************************************************************)
(* call-tool search: the summary text.                                     *)
(***************************************************************************)
\* The files the remote returns for a search: name and mimeType may be absent.
FileNames == {None, Some("Q1 budget.xlsx"), Some("budget-notes.txt")}
FileMimes == {None, Some(MimeSpreadsheet), Some(MimeTextPlain)}
SearchFiles == [name : FileNames, mimeType : FileMimes]

\* !userQuery
Falsy(queryOpt) == ~queryOpt.some \/ queryOpt.v = <<>>

\* if (!userQuery) throw
queryMissing(queryOpt) == Falsy(queryOpt)

\* `${file.name || 'Unknown'} (${file.mimeType || 'Unknown type'})`
fileLine(file) ==
  (IF file.name.some /\ file.name.v # "" THEN file.name.v ELSE "Unknown")
  \o " (" \o
  (IF file.mimeType.some /\ file.mimeType.v # <<>>
   THEN MimeString(file.mimeType.v) ELSE "Unknown type")
  \o ")"

\* Array.prototype.join
RECURSIVE Join(_, _)
Join(lines, sep) ==
  IF lines = <<>> THEN ""
  ELSE IF Len(lines) = 1 THEN lines[1]
  ELSE lines[1] \o sep \o Join(Tail(lines), sep)

\* res.data.files?.map(...).join("\n") || ''
fileList(filesOpt) ==
  IF filesOpt.some
  THEN Join([i \in 1..Len(filesOpt.v) |-> fileLine(filesOpt.v[i])], "\n")
  ELSE ""

\* res.data.files?.length ?? 0
fileCount(filesOpt) == IF filesOpt.some THEN Len(filesOpt.v) ELSE 0

\* A variant that reports the requested page size as the count.
searchTextPageSize(filesOpt) ==
  "Found " \o ToString(10) \o " files:\n" \o fileList(filesOpt)

\* `Found ${res.data.files?.length ?? 0} files:\n${fileList}`
searchText(filesOpt) ==
  "Found " \o ToString(fileCount(filesOpt)) \o " files:\n" \o fileList(filesOpt)

\* The result of a successful call-tool search.
searchResult(filesOpt) ==
  [content |-> <<[type |-> "text", text |-> searchText(filesOpt)]>>,
   isError |-> FALSE]

\* The static catalog of list-tools.
toolsResult ==
  [tools |-> <<[name |-> "search", required |-> <<"query">>]>>]

(***************************************************************************)
(* State.                                                                  *)
(***************************************************************************)
VARIABLES
  mode,             \* the mode of the process: "none" before the dispatch of the
                    \* main logic, then "auth", "stdio", "sse" or "websocket"
  conn,             \* per connection: "absent", "open", "closing" (a socket in
                    \* its closing handshake) or "closed"
  serverTransport,  \* the transport the Server is connected to (NoConn: none)
  wire,             \* per connection: the client's messages not yet received
  nextId,           \* the id the next client request gets
  calls,            \* request id -> the handler invocation of that request
  sent,             \* per connection: the messages written to the client
  remoteLog,        \* request id -> the remote Drive calls its handler issued
  dropped,          \* per connection: the messages received and handed to no handler
  argv,             \* process.argv.slice(2), as the set of the arguments
  env,              \* process.env: variable name -> its value, if set
  fsys,             \* the file system: whether the credentials directory can be
                    \* written, the content of the credentials file and the
                    \* content of temp-oauth.json beside it
  auth,             \* the client given to google.options({ auth }), if any
  stderr,           \* the lines of the credential setup on the error output
  process,          \* the state of the process, its exit code and fatal signal
  listener,         \* httpServer: "unbound", "listening" or "closed"
  signals,          \* the number of termination signals delivered
  http,             \* the responses the listener has given on its plain routes
  adapterCalls      \* the calls of send and close of the socket adapters, each
                    \* with the readyState of its socket at the call

\* The variables of the host: configuration, credentials and process.
configVars == <<argv, env, fsys, auth, stderr>>
hostVars == <<argv, env, fsys, auth, stderr, process, listener, signals, http,
              adapterCalls>>

vars == <<mode, conn, serverTransport, wire, nextId, calls, sent, remoteLog, dropped,
          argv, env, fsys, auth, stderr, process, listener, signals, http,
          adapterCalls>>

Conns == 1..MaxConns
NoConn == 0

\* Connection c has not ended: it is open, or a socket that is closing.
Live(c) == conn[c] \in {"open", "closing"}
Modes == {"stdio", "sse", "websocket"}

\* The endpoint an SSE transport announces for the client's POSTs.
SseEndpoint == <<"/sse">>
MessageEndpoint(c) == <<"/sse", "?sessionId=", ToString(c)>>

(***************************************************************************)
(* The host: the arguments, the environment and the credentials file.     *)
(***************************************************************************)
\* The arguments the main logic looks for.
Args == {"auth", "--sse", "--websocket"}

\* The five variables of the credential setup, in the order they are printed.
CredentialNames ==
  <<"GDRIVE_ACCESS_TOKEN", "GDRIVE_REFRESH_TOKEN", "GDRIVE_CLIENT_ID",
    "GDRIVE_CLIENT_SECRET", "GDRIVE_CREDENTIALS_PATH">>
CredentialNameSet == {CredentialNames[i] : i \in DOMAIN CredentialNames}
EnvNames == CredentialNameSet \cup {"MCP_TRANSPORT"}

\* A variable is not set, set to the empty string, or set to a value.
EnvValue(name) == "<" \o name \o ">"
EnvValues(name) ==
  IF name = "MCP_TRANSPORT"
  THEN {None, Some("sse"), Some("websocket"), Some("stdio")}
  ELSE {None, Some(""), Some(EnvValue(name))}
Environments ==
  [GDRIVE_ACCESS_TOKEN : EnvValues("GDRIVE_ACCESS_TOKEN"),
   GDRIVE_REFRESH_TOKEN : EnvValues("GDRIVE_REFRESH_TOKEN"),
   GDRIVE_CLIENT_ID : EnvValues("GDRIVE_CLIENT_ID"),
   GDRIVE_CLIENT_SECRET : EnvValues("GDRIVE_CLIENT_SECRET"),
   GDRIVE_CREDENTIALS_PATH : EnvValues("GDRIVE_CREDENTIALS_PATH"),
   MCP_TRANSPORT : EnvValues("MCP_TRANSPORT")]
FullEnv(transport) ==
  [n \in EnvNames |-> IF n = "MCP_TRANSPORT" THEN transport ELSE Some(EnvValue(n))]

\* A variant of the test below that takes the empty string for a value.
unsetOnlyAbsent(valueOpt) == ~valueOpt.some

\* !value, of a string that may be undefined
unset(valueOpt) == ~valueOpt.some \/ valueOpt.v = ""

\* The record createCredentialsFromEnv builds.
credentialsOf(e) ==
  [access_token |-> e["GDRIVE_ACCESS_TOKEN"].v,
   refresh_token |-> e["GDRIVE_REFRESH_TOKEN"].v,
   scope |-> "https://www.googleapis.com/auth/drive.readonly",
   token_type |-> "Bearer",
   expiry_date |-> "Date.now() + 3600000"]

\* What createCredentialsFromEnv prints when a variable is missing.
MissingOutput ==
  <<"Missing required environment variables:">> \o
  [i \in DOMAIN CredentialNames |-> "- " \o CredentialNames[i]]

WriteError == "Error writing credentials file:"

\* A variant that returns the record although writing the file failed.
createCredentialsFromEnvUnchecked(e, writable) ==
  IF \E n \in CredentialNameSet : unset(e[n])
  THEN [credentials |-> None, file |-> None, output |-> MissingOutput]
  ELSE [credentials |-> Some(credentialsOf(e)),
        file |-> IF writable THEN Some(credentialsOf(e)) ELSE None,
        output |-> <<>>]

(***************************************************************************)
(* createCredentialsFromEnv: the record it returns, the content it writes  *)
(* to the credentials file and the lines it prints on the error output;    *)
(* writable tells whether mkdirSync and writeFileSync go through.          *)
(***************************************************************************)
createCredentialsFromEnv(e, writable) ==
  IF \E n \in CredentialNameSet : unset(e[n])
  THEN [credentials |-> None, file |-> None, output |-> MissingOutput]
  ELSE IF writable
       THEN [credentials |-> Some(credentialsOf(e)),
             file |-> Some(credentialsOf(e)), output |-> <<>>]
       ELSE [credentials |-> None, file |-> None, output |-> <<WriteError>>]

\* new google.auth.OAuth2(client_id, client_secret, ...) with the credentials
OAuth2(e, credentials) ==
  [client_id |-> e["GDRIVE_CLIENT_ID"].v,
   client_secret |-> e["GDRIVE_CLIENT_SECRET"].v,
   credentials |-> credentials]

\* A variant of the main logic that looks for the socket mode first.
mainModeSocketFirst(a, e) ==
  IF "auth" \in a THEN "auth"
  ELSE IF "--websocket" \in a \/ e["MCP_TRANSPORT"] = Some("websocket") THEN "websocket"
  ELSE IF "--sse" \in a \/ e["MCP_TRANSPORT"] = Some("sse") THEN "sse"
  ELSE "stdio"

\* The main logic: the mode the arguments and MCP_TRANSPORT select.
mainMode(a, e) ==
  IF "auth" \in a THEN "auth"
  ELSE IF "--sse" \in a \/ e["MCP_TRANSPORT"] = Some("sse") THEN "sse"
  ELSE IF "--websocket" \in a \/ e["MCP_TRANSPORT"] = Some("websocket") THEN "websocket"
  ELSE "stdio"

SetupSuccessful == "Google Drive authentication successful."

\* The process: "loaded" before the main logic, "auth" in the OAuth flow and
\* "authenticating" while the flow awaits authenticate(), "setup" before
\* setupAuthentication, "starting" after it, then "running" and "exited".
Process(state) == [state |-> state, exit |-> None, signal |-> None]
Running == process.state = "running"

\* The host of a process that has started serving in mode m.
Started(m) ==
  /\ argv = (IF m = "sse" THEN {"--sse"} ELSE IF m = "websocket" THEN {"--websocket"} ELSE {})
  /\ env = FullEnv(None)
  /\ fsys = [writable |-> TRUE, file |-> Some(credentialsOf(FullEnv(None))),
             temp |-> None]
  /\ auth = Some(OAuth2(FullEnv(None), credentialsOf(FullEnv(None))))
  /\ stderr = <<SetupSuccessful>>
  /\ process = Process("running")
  /\ listener = (IF m = "stdio" THEN "unbound" ELSE "listening")
  /\ signals = 0
  /\ http = {}
  /\ adapterCalls = <<>>

\* The process ends: its connections and its listener end with it.
Terminate(p) ==
  /\ process' = p
  /\ conn' = [c \in Conns |-> IF Live(c) THEN "closed" ELSE conn[c]]
  /\ listener' = (IF listener = "listening" THEN "closed" ELSE listener)

\* process.exit(code)
ExitWith(code) == Terminate([state |-> "exited", exit |-> Some(code), signal |-> None])

(***************************************************************************)
(* Messages of the protocol.  A request not using a parameter carries None *)
(* for it; Malformed is a frame that is no JSON.                           *)
(***************************************************************************)
Request(method, name, query, uri, cursor) ==
  [wf |-> TRUE, method |-> method, name |-> name, query |-> query,
   uri |-> uri, cursor |-> cursor]
Malformed == [wf |-> FALSE]

ListToolsRequest == Request("tools/list", None, None, None, None)
CallToolRequest(name, query) == Request("tools/call", Some(name), query, None, None)
ReadResourceRequest(uri) == Request("resources/read", None, None, Some(uri), None)
ListResourcesRequest(cursor) == Request("resources/list", None, None, None, cursor)

WithId(msg, id) == [k \in DOMAIN msg \cup {"id"} |-> IF k = "id" THEN id ELSE msg[k]]

Success(id, result) == [id |-> id, ok |-> TRUE, result |-> result]
Failure(id, message) == [id |-> id, ok |-> FALSE, error |-> message]

RemoteError == "Remote API error"

\* A variant of transport.send without the test of the readyState.
TransportSendAlways(message) ==
  IF serverTransport # NoConn
  THEN sent' = [sent EXCEPT ![serverTransport] = Append(@, message)]
  ELSE UNCHANGED sent

(***************************************************************************)
(* transport.send: the message is written when the connection is open      *)
(* (ws.readyState === WebSocket.OPEN); the Server sends on the transport   *)
(* it is connected to.                                                     *)
(***************************************************************************)
TransportSend(message) ==
  IF serverTransport # NoConn /\ conn[serverTransport] = "open"
  THEN sent' = [sent EXCEPT ![serverTransport] = Append(@, message)]
  ELSE UNCHANGED sent

\* A call of the remote Drive API by the handler of request id.
RemoteCall(id, call) ==
  remoteLog' = IF id \in DOMAIN remoteLog
               THEN [remoteLog EXCEPT ![id] = Append(@, call)]
               ELSE remoteLog @@ (id :> <<call>>)

Invocation(c, req, pc) ==
  [conn |-> c, req |-> req, pc |-> pc, fileMime |-> None, exportMime |-> None,
   res |-> None]

(***************************************************************************)
(* The handlers, up to their first await.                                  *)
(***************************************************************************)
\* ListToolsRequestSchema handler
ListToolsHandler(c, req) ==
  /\ calls' = calls @@ (req.id :> Invocation(c, req, "done"))
  /\ TransportSend(Success(req.id, toolsResult))
  /\ UNCHANGED remoteLog

\* A variant that takes every tool name for the search tool.
toolIsSearchAlways(name) == TRUE

\* request.params.name === "search"
toolIsSearch(name) == name = "search"

\* CallToolRequestSchema handler
CallToolHandler(c, req) ==
  IF toolIsSearch(req.name.v)
  THEN IF queryMissing(req.query)
       THEN /\ calls' = calls @@ (req.id :> Invocation(c, req, "done"))
            /\ TransportSend(Failure(req.id, "Query parameter is required"))
            /\ UNCHANGED remoteLog
       ELSE /\ calls' = calls @@ (req.id :> Invocation(c, req, "await_search"))
            /\ RemoteCall(req.id,
                 [id |-> req.id, api |-> "files.list",
                  q |-> formattedQuery(req.query.v), pageSize |-> 10,
                  fields |-> "files(id, name, mimeType, modifiedTime, size)"])
            /\ UNCHANGED sent
  ELSE /\ calls' = calls @@ (req.id :> Invocation(c, req, "done"))
       /\ TransportSend(Failure(req.id, "Tool not found"))
       /\ UNCHANGED remoteLog

\* ReadResourceRequestSchema handler, to the metadata fetch
ReadResourceHandler(c, req) ==
  /\ calls' = calls @@ (req.id :> Invocation(c, req, "await_meta"))
  /\ RemoteCall(req.id,
       [id |-> req.id, api |-> "files.get", fileId |-> fileId(req.uri.v),
        fields |-> "mimeType"])
  /\ UNCHANGED sent

\* ListResourcesRequestSchema handler, to the remote list
ListResourcesHandler(c, req) ==
  /\ calls' = calls @@ (req.id :> Invocation(c, req, "await_list"))
  /\ RemoteCall(req.id,
       [id |-> req.id, api |-> "files.list", pageSize |-> 10,
        pageToken |-> IF req.cursor.some /\ req.cursor.v # "" THEN req.cursor ELSE None,
        fields |-> "nextPageToken, files(id, name, mimeType)"])
  /\ UNCHANGED sent

\* The Server's dispatch of a request to the handler registered for its method.
Dispatch(c, req) ==
  CASE req.method = "tools/list" -> ListToolsHandler(c, req)
    [] req.method = "tools/call" -> CallToolHandler(c, req)
    [] req.method = "resources/read" -> ReadResourceHandler(c, req)
    [] req.method = "resources/list" -> ListResourcesHandler(c, req)

(***************************************************************************)
(* The client side: a client writes a message on an open connection.       *)
(***************************************************************************)
ClientSend(c, msg) ==
  /\ conn[c] = "open"
  /\ wire' = [wire EXCEPT ![c] = Append(@, WithId(msg, nextId))]
  /\ nextId' = nextId + 1
  /\ UNCHANGED <<hostVars, mode, conn, serverTransport, calls, sent, remoteLog, dropped>>

RemoveAt(s, i) == SubSeq(s, 1, i - 1) \o SubSeq(s, i + 1, Len(s))

(***************************************************************************)
(* Pipe mode (runStdioServer): the stdio transport hands each message it   *)
(* reads to the Server, which starts the handler; a handler that awaits    *)
(* nothing has answered before the next message is read.  A line that is   *)
(* no JSON is reported to onerror and dropped.                             *)
(***************************************************************************)
StdioReceiveAt(c, i) ==
  /\ mode = "stdio"
  /\ conn[c] = "open"
  /\ i \in 1..Len(wire[c])
  /\ LET msg == wire[c][i] IN
       /\ wire' = [wire EXCEPT ![c] = RemoveAt(@, i)]
       /\ IF msg.wf
          THEN Dispatch(c, msg) /\ UNCHANGED dropped
          ELSE /\ dropped' = [dropped EXCEPT ![c] = Append(@, msg)]
               /\ UNCHANGED <<calls, sent, remoteLog>>
  /\ UNCHANGED <<hostVars, mode, conn, serverTransport, nextId>>

\* A variant that delivers any pending message, not the oldest.
StdioReceiveAny(c) == \E i \in 1..Len(wire[c]) : StdioReceiveAt(c, i)

StdioReceive(c) == StdioReceiveAt(c, 1)

(***************************************************************************)
(* server.connect(transport): the one Server instance is connected to one *)
(* transport, the one of the latest connect (@modelcontextprotocol/sdk     *)
(* 1.0.1, the version package.json pins), and sends its responses on it.   *)
(***************************************************************************)
ServerConnect(c) == serverTransport' = c

\* The connection a new client gets: the lowest unused one.
FreshConn(c) == conn[c] = "absent" /\ \A d \in Conns : d < c => conn[d] # "absent"

(***************************************************************************)
(* httpServer.close(() => process.exit(0)): the listener accepts no new    *)
(* connection, and the callback runs on the 'close' event, which the       *)
(* server emits once no connection is open (an SSE response stream and an  *)
(* upgraded socket are connections of the server until they end).          *)
(***************************************************************************)
HttpServerClose ==
  IF \A c \in Conns : ~Live(c)
  THEN ExitWith(0)
  ELSE listener' = "closed" /\ UNCHANGED <<process, conn>>

\* Connection c ends: if the server was closed and c was its last open
\* connection, the 'close' event runs the callback of HttpServerClose.
ConnectionEnds(c) ==
  IF listener = "closed" /\ \A d \in Conns \ {c} : ~Live(d)
  THEN ExitWith(0)
  ELSE conn' = [conn EXCEPT ![c] = "closed"] /\ UNCHANGED <<process, listener>>

(***************************************************************************)
(* Socket mode (runWebSocketServer).                                       *)
(***************************************************************************)
\* wss.on('connection'): builds the adapter and connects the Server to it.
WsConnection(c) ==
  /\ mode = "websocket"
  /\ listener = "listening"
  /\ FreshConn(c)
  /\ conn' = [conn EXCEPT ![c] = "open"]
  /\ ServerConnect(c)
  /\ UNCHANGED <<hostVars, mode, wire, nextId, calls, sent, remoteLog, dropped>>

\* A variant that closes the socket on a frame that does not parse.
WsMessageClosing(c) ==
  /\ mode = "websocket"
  /\ conn[c] = "open"
  /\ wire[c] # <<>>
  /\ wire' = [wire EXCEPT ![c] = Tail(@)]
  /\ dropped' = [dropped EXCEPT ![c] = Append(@, Head(wire[c]))]
  /\ conn' = IF Head(wire[c]).wf THEN conn ELSE [conn EXCEPT ![c] = "closed"]
  /\ UNCHANGED <<hostVars, mode, serverTransport, nextId, calls, sent, remoteLog>>

\* ws.on('message'): the frame is parsed and logged, and nothing else.
WsMessage(c) ==
  /\ mode = "websocket"
  /\ conn[c] = "open"
  /\ wire[c] # <<>>
  /\ wire' = [wire EXCEPT ![c] = Tail(@)]
  /\ dropped' = [dropped EXCEPT ![c] = Append(@, Head(wire[c]))]
  /\ UNCHANGED <<hostVars, mode, conn, serverTransport, nextId, calls, sent, remoteLog>>

\* ws.on('close') and ws.on('error'): logged; the adapter reports nothing
\* to the Server.  The connection has ended for httpServer too.
WsClose(c) ==
  /\ mode = "websocket"
  /\ Live(c)
  /\ ConnectionEnds(c)
  /\ UNCHANGED <<configVars, adapterCalls, signals, http>>
  /\ UNCHANGED <<mode, serverTransport, wire, nextId, calls, sent, remoteLog, dropped>>

\* The closing handshake of socket c starts (the client's close frame has
\* arrived): ws.readyState is CLOSING until the socket has ended.
WsClosing(c) ==
  /\ mode = "websocket"
  /\ conn[c] = "open"
  /\ conn' = [conn EXCEPT ![c] = "closing"]
  /\ UNCHANGED <<hostVars, mode, serverTransport, wire, nextId, calls, sent, remoteLog,
                 dropped>>

\* What adapterCalls records of a call of the adapter the Server holds.
AdapterCall(op) ==
  [op |-> op, conn |-> serverTransport, readyState |-> conn[serverTransport]]

\* The Server calls send of the adapter it is connected to.
AdapterSend(message) ==
  /\ mode = "websocket"
  /\ Running
  /\ serverTransport # NoConn
  /\ adapterCalls' = Append(adapterCalls, AdapterCall("send"))
  /\ TransportSend(message)
  /\ UNCHANGED <<configVars, process, listener, signals, http>>
  /\ UNCHANGED <<mode, conn, serverTransport, wire, nextId, calls, remoteLog, dropped>>

\* The Server calls close of the adapter it is connected to: ws.close()
\* starts the closing handshake of an open socket.
AdapterClose ==
  /\ mode = "websocket"
  /\ Running
  /\ serverTransport # NoConn
  /\ adapterCalls' = Append(adapterCalls, AdapterCall("close"))
  /\ conn' = [conn EXCEPT ![serverTransport] = IF @ = "open" THEN "closing" ELSE @]
  /\ UNCHANGED <<configVars, process, listener, signals, http>>
  /\ UNCHANGED <<mode, serverTransport, wire, nextId, calls, sent, remoteLog, dropped>>

(***************************************************************************)
(* Push-channel mode (runSSEServer): the routes of the HTTP listener.      *)
(***************************************************************************)
SseRoute(method, url) ==
  CASE method = "OPTIONS" -> "preflight"
    [] method # "OPTIONS" /\ url = <<"/health">> -> "health"
    [] method # "OPTIONS" /\ url = <<"/">> -> "root"
    [] method # "OPTIONS" /\ url = SseEndpoint -> "sse"
    [] OTHER -> "not_found"

\* A request for /sse: a new SSEServerTransport on the response, and
\* server.connect(transport).
SseConnection(c) ==
  /\ mode = "sse"
  /\ listener = "listening"
  /\ FreshConn(c)
  /\ SseRoute("GET", SseEndpoint) = "sse"
  /\ conn' = [conn EXCEPT ![c] = "open"]
  /\ ServerConnect(c)
  /\ UNCHANGED <<hostVars, mode, wire, nextId, calls, sent, remoteLog, dropped>>

\* The client's POST of a message to the endpoint its transport announced:
\* the listener has no route for it and answers 404.
SsePost(c) ==
  /\ mode = "sse"
  /\ conn[c] = "open"
  /\ wire[c] # <<>>
  /\ SseRoute("POST", MessageEndpoint(c)) = "not_found"
  /\ wire' = [wire EXCEPT ![c] = Tail(@)]
  /\ dropped' = [dropped EXCEPT ![c] = Append(@, Head(wire[c]))]
  /\ UNCHANGED <<hostVars, mode, conn, serverTransport, nextId, calls, sent, remoteLog>>

\* req.on('close') and req.on('error'): logged.  Whether the SDK transport
\* reports the closed response stream to the Server, which then has no
\* transport, is not decided by this code: both outcomes are allowed.
SseClose(c) ==
  /\ mode = "sse"
  /\ conn[c] = "open"
  /\ ConnectionEnds(c)
  /\ serverTransport' \in {serverTransport, NoConn}
  /\ UNCHANGED <<configVars, adapterCalls, signals, http>>
  /\ UNCHANGED <<mode, wire, nextId, calls, sent, remoteLog, dropped>>

(***************************************************************************)
(* The plain routes of the two listeners.                                  *)
(***************************************************************************)
\* The request handler of runWebSocketServer's httpServer.
WsRoute(method, url) ==
  CASE method = "OPTIONS" -> "preflight"
    [] method # "OPTIONS" /\ url = <<"/health">> -> "health"
    [] OTHER -> "not_found"

\* A variant of the routes that knows no health endpoint.
RouteOfNoHealth(m, method, url) ==
  IF method = "OPTIONS" THEN "preflight" ELSE "not_found"

RouteOf(m, method, url) ==
  IF m = "sse" THEN SseRoute(method, url) ELSE WsRoute(method, url)

\* res.writeHead(...) and res.end(...) of a route: the status code and, of
\* the JSON body, the field that tells the routes apart.
RouteResponse(route) ==
  CASE route = "preflight" -> [status |-> 200, body |-> None]
    [] route = "health" -> [status |-> 200, body |-> Some([status |-> "healthy"])]
    [] route = "root" -> [status |-> 200, body |-> Some([name |-> "MCP GDrive Server"])]
    [] route = "not_found" -> [status |-> 404, body |-> Some([error |-> "Not Found"])]

\* An HTTP request other than the one that opens an SSE stream.
HttpRequest(method, url) ==
  /\ mode \in {"sse", "websocket"}
  /\ Running
  /\ listener = "listening"
  /\ RouteOf(mode, method, url) # "sse"
  /\ http' = http \cup {[method |-> method, url |-> url,
                           response |-> RouteResponse(RouteOf(mode, method, url))]}
  /\ UNCHANGED <<configVars, adapterCalls, process, listener, signals>>
  /\ UNCHANGED <<mode, conn, serverTransport, wire, nextId, calls, sent, remoteLog, dropped>>

(***************************************************************************)
(* Startup: the main logic, the OAuth flow, setupAuthentication and the    *)
(* start of the transport or of the listener.                              *)
(***************************************************************************)
Main ==
  /\ process.state = "loaded"
  /\ mode' = mainMode(argv, env)
  /\ process' = Process(IF mainMode(argv, env) = "auth" THEN "auth" ELSE "setup")
  /\ UNCHANGED <<configVars, adapterCalls, listener, signals, http>>
  /\ UNCHANGED <<conn, serverTransport, wire, nextId, calls, sent, remoteLog, dropped>>

AuthMissingOutput ==
  <<"Required environment variables must be set in .env file:",
    "- GDRIVE_CLIENT_ID", "- GDRIVE_CLIENT_SECRET", "- GDRIVE_CREDENTIALS_PATH">>
AuthError == "authenticate failed"
AuthFsError == "write failed"
\* auth.credentials of a granted OAuth flow
AuthCredentials == [access_token |-> "granted access token",
                    refresh_token |-> "granted refresh token"]

\* tempOAuthConfig, the descriptor written to temp-oauth.json
tempOAuthConfig(e) ==
  [client_id |-> e["GDRIVE_CLIENT_ID"].v,
   client_secret |-> e["GDRIVE_CLIENT_SECRET"].v,
   redirect_uris |-> <<"http://localhost">>]

\* authenticateAndSaveCredentials up to its await: the test of the three
\* variables, then mkdirSync and the writeFileSync of the descriptor.  When
\* these throw, the catch finds no descriptor and rethrows; a throw is
\* printed by the catch of the main logic and the process ends when the
\* flow has.
AuthFlow ==
  /\ process.state = "auth"
  /\ IF \/ unset(env["GDRIVE_CLIENT_ID"]) \/ unset(env["GDRIVE_CLIENT_SECRET"])
        \/ unset(env["GDRIVE_CREDENTIALS_PATH"])
     THEN /\ stderr' = stderr \o AuthMissingOutput
          /\ ExitWith(1)
          /\ UNCHANGED fsys
     ELSE IF fsys.writable
     THEN /\ fsys' = [fsys EXCEPT !.temp = Some(tempOAuthConfig(env))]
          /\ process' = Process("authenticating")
          /\ UNCHANGED <<stderr, conn, listener>>
     ELSE /\ stderr' = Append(stderr, AuthFsError)
          /\ ExitWith(0)
          /\ UNCHANGED fsys
  /\ UNCHANGED <<argv, env, auth, signals, http, adapterCalls>>
  /\ UNCHANGED <<mode, serverTransport, wire, nextId, calls, sent, remoteLog, dropped>>

\* A variant that removes the descriptor on success only.
AuthResumeNoCleanup(granted, saved) ==
  /\ process.state = "authenticating"
  /\ IF granted /\ saved
     THEN /\ fsys' = [fsys EXCEPT !.file = Some(AuthCredentials), !.temp = None]
          /\ UNCHANGED stderr
     ELSE /\ stderr' = Append(stderr, IF granted THEN AuthFsError ELSE AuthError)
          /\ UNCHANGED fsys
  /\ ExitWith(0)
  /\ UNCHANGED <<argv, env, auth, signals, http, adapterCalls>>
  /\ UNCHANGED <<mode, serverTransport, wire, nextId, calls, sent, remoteLog, dropped>>

\* authenticateAndSaveCredentials from its await on: granted tells whether
\* authenticate() resolves, saved whether the writeFileSync of the
\* credentials file goes through.  Both ends unlink the descriptor: the try
\* after the file is written, the catch before it rethrows.
AuthResume(granted, saved) ==
  /\ process.state = "authenticating"
  /\ IF granted /\ saved
     THEN /\ fsys' = [fsys EXCEPT !.file = Some(AuthCredentials), !.temp = None]
          /\ UNCHANGED stderr
     ELSE /\ fsys' = [fsys EXCEPT !.temp = None]
          /\ stderr' = Append(stderr, IF granted THEN AuthFsError ELSE AuthError)
  /\ ExitWith(0)
  /\ UNCHANGED <<argv, env, auth, signals, http, adapterCalls>>
  /\ UNCHANGED <<mode, serverTransport, wire, nextId, calls, sent, remoteLog, dropped>>

PathMissingOutput == "GDRIVE_CREDENTIALS_PATH must be set in .env file"
SetupFailedOutput ==
  <<"Failed to create credentials from environment variables!",
    "Please run: npm run auth  (to run OAuth flow)",
    "Or ensure all required environment variables are set in .env file">>
ClientMissingOutput == "GDRIVE_CLIENT_ID and GDRIVE_CLIENT_SECRET must be set in .env file"

\* setupAuthentication, awaited first by each of the three run functions.
SetupAuthentication ==
  /\ process.state = "setup"
  /\ IF unset(env["GDRIVE_CREDENTIALS_PATH"])
     THEN /\ stderr' = Append(stderr, PathMissingOutput)
          /\ ExitWith(1)
          /\ UNCHANGED <<fsys, auth>>
     ELSE LET made == createCredentialsFromEnv(env, fsys.writable) IN
          IF ~made.credentials.some
          THEN /\ stderr' = stderr \o made.output \o SetupFailedOutput
               /\ ExitWith(1)
               /\ UNCHANGED <<fsys, auth>>
          ELSE /\ fsys' = [fsys EXCEPT !.file = made.file]
               /\ IF unset(env["GDRIVE_CLIENT_ID"]) \/ unset(env["GDRIVE_CLIENT_SECRET"])
                  THEN /\ stderr' = Append(stderr \o made.output, ClientMissingOutput)
                       /\ ExitWith(1)
                       /\ UNCHANGED auth
                  ELSE /\ auth' = Some(OAuth2(env, made.credentials.v))
                       /\ stderr' = Append(stderr \o made.output, SetupSuccessful)
                       /\ process' = Process("starting")
                       /\ UNCHANGED <<conn, listener>>
  /\ UNCHANGED <<argv, env, signals, http, adapterCalls>>
  /\ UNCHANGED <<mode, serverTransport, wire, nextId, calls, sent, remoteLog, dropped>>

\* runStdioServer after the setup: server.connect(new StdioServerTransport())
StdioConnect ==
  /\ mode = "stdio"
  /\ process.state = "starting"
  /\ conn' = [conn EXCEPT ![1] = "open"]
  /\ ServerConnect(1)
  /\ process' = Process("running")
  /\ UNCHANGED <<configVars, adapterCalls, listener, signals, http>>
  /\ UNCHANGED <<mode, wire, nextId, calls, sent, remoteLog, dropped>>

\* runSSEServer and runWebSocketServer after the setup: httpServer.listen(...)
\* and the registration of the signal handlers.
HttpListen ==
  /\ mode \in {"sse", "websocket"}
  /\ process.state = "starting"
  /\ listener' = "listening"
  /\ process' = Process("running")
  /\ UNCHANGED <<configVars, adapterCalls, signals, http>>
  /\ UNCHANGED <<mode, conn, serverTransport, wire, nextId, calls, sent, remoteLog, dropped>>

(***************************************************************************)
(* Termination signals.                                                    *)
(***************************************************************************)
Signals == {"SIGTERM", "SIGINT"}

\* A variant of shutdown that leaves the listener as it is.
SseShutdownNoClose(signal) == UNCHANGED <<process, conn, listener>>

\* shutdown(signal) of runSSEServer: httpServer.close and a 10 s timer
SseShutdown(signal) == HttpServerClose

\* A variant that exits on the signal without waiting for the connections.
WsShutdownExit(signal) == ExitWith(0)

\* process.on('SIGTERM' / 'SIGINT') of runWebSocketServer: no timer
WsShutdown(signal) == HttpServerClose

\* The force-exit timers that are pending: one per shutdown(signal) call.
ForceTimers == IF mode = "sse" THEN signals ELSE 0

\* A termination signal is delivered.  Pipe mode registers no handler: the
\* signal ends the process.
Signal(signal) ==
  /\ Running
  /\ signals' = signals + 1
  /\ CASE mode = "stdio" ->
            Terminate([state |-> "exited", exit |-> None, signal |-> Some(signal)])
       [] mode = "sse" -> SseShutdown(signal)
       [] mode = "websocket" -> WsShutdown(signal)
  /\ UNCHANGED <<configVars, adapterCalls, http>>
  /\ UNCHANGED <<mode, serverTransport, wire, nextId, calls, sent, remoteLog, dropped>>

\* setTimeout(() => process.exit(1), 10000) of shutdown fires.
ForceExit ==
  /\ Running
  /\ ForceTimers > 0
  /\ ExitWith(1)
  /\ UNCHANGED <<configVars, adapterCalls, signals, http>>
  /\ UNCHANGED <<mode, serverTransport, wire, nextId, calls, sent, remoteLog, dropped>>

(***************************************************************************)
(* The remote Drive API answers a pending call: the handler resumes to its *)
(* next await or to its return, and the Server sends the response.         *)
(***************************************************************************)
Awaiting(id, pc) == Running /\ id \in DOMAIN calls /\ calls[id].pc = pc

\* The handler returns or throws: res is what the remote answered last.
Finish(id, res, response) ==
  /\ calls' = [calls EXCEPT ![id].pc = "done", ![id].res = res]
  /\ TransportSend(response)

\* A variant in which the reply brings a refreshed access token that is
\* set on the client and saved to the credentials file.
SearchReplyRefresh(id, filesOpt) ==
  /\ Awaiting(id, "await_search")
  /\ Finish(id, Some(filesOpt), Success(id, searchResult(filesOpt)))
  /\ auth' = Some([auth.v EXCEPT !.credentials.access_token = "refreshed"])
  /\ fsys' = [fsys EXCEPT !.file = Some([@.v EXCEPT !.access_token = "refreshed"])]
  /\ UNCHANGED <<argv, env, stderr, process, listener, signals, http, adapterCalls>>
  /\ UNCHANGED <<mode, conn, serverTransport, wire, nextId, remoteLog, dropped>>

\* drive.files.list of call-tool search resolves.
SearchReply(id, filesOpt) ==
  /\ Awaiting(id, "await_search")
  /\ Finish(id, Some(filesOpt), Success(id, searchResult(filesOpt)))
  /\ UNCHANGED <<hostVars, mode, conn, serverTransport, wire, nextId, remoteLog, dropped>>

\* drive.files.get of the metadata resolves: an export or a download follows.
MetaReply(id, mimeOpt) ==
  /\ Awaiting(id, "await_meta")
  /\ LET fid == fileId(calls[id].req.uri.v) IN
     IF IsGoogleApps(mimeOpt)
     THEN /\ calls' = [calls EXCEPT ![id].pc = "await_export",
                                    ![id].fileMime = mimeOpt,
                                    ![id].exportMime = Some(exportMimeType(mimeOpt.v))]
          /\ RemoteCall(id,
               [id |-> id, api |-> "files.export", fileId |-> fid,
                mimeType |-> exportMimeType(mimeOpt.v), responseType |-> "text"])
     ELSE /\ calls' = [calls EXCEPT ![id].pc = "await_download",
                                    ![id].fileMime = mimeOpt]
          /\ RemoteCall(id,
               [id |-> id, api |-> "files.get", fileId |-> fid,
                alt |-> "media", responseType |-> "arraybuffer"])
  /\ UNCHANGED <<hostVars, mode, conn, serverTransport, wire, nextId, sent, dropped>>

\* drive.files.export resolves.
ExportReply(id, data) ==
  /\ Awaiting(id, "await_export")
  /\ Finish(id, Some(data), Success(id,
       [contents |-> exportContents(calls[id].req.uri.v, calls[id].exportMime.v, data)]))
  /\ UNCHANGED <<hostVars, mode, conn, serverTransport, wire, nextId, remoteLog, dropped>>

\* drive.files.get with alt=media resolves.
DownloadReply(id, data) ==
  /\ Awaiting(id, "await_download")
  /\ Finish(id, Some(data), Success(id,
       [contents |-> downloadContents(calls[id].req.uri.v,
                                      downloadMimeType(calls[id].fileMime), data)]))
  /\ UNCHANGED <<hostVars, mode, conn, serverTransport, wire, nextId, remoteLog, dropped>>

\* files.map(...) of list-resources
resources(files) ==
  [i \in 1..Len(files) |->
     [uri |-> ResourceUri(files[i].id),
      mimeType |-> downloadMimeType(files[i].mimeType),
      name |-> IF files[i].name.some /\ files[i].name.v # ""
               THEN files[i].name.v ELSE "Unknown"]]

\* drive.files.list of list-resources resolves.
ListReply(id, page) ==
  /\ Awaiting(id, "await_list")
  /\ Finish(id, Some(page), Success(id,
       [resources |-> resources(IF page.files.some THEN page.files.v ELSE <<>>),
        nextCursor |-> page.nextPageToken]))
  /\ UNCHANGED <<hostVars, mode, conn, serverTransport, wire, nextId, remoteLog, dropped>>

\* A variant that issues the rejected call once more before it gives up.
RemoteFailureRetry(id) ==
  /\ Running
  /\ id \in DOMAIN calls
  /\ calls[id].pc # "done"
  /\ RemoteCall(id, remoteLog[id][Len(remoteLog[id])])
  /\ Finish(id, None, Failure(id, RemoteError))
  /\ UNCHANGED <<hostVars, mode, conn, serverTransport, wire, nextId, dropped>>

\* A remote call rejects: the handler throws, the request fails with that error.
RemoteFailure(id) ==
  /\ Running
  /\ id \in DOMAIN calls
  /\ calls[id].pc # "done"
  /\ Finish(id, None, Failure(id, RemoteError))
  /\ UNCHANGED <<hostVars, mode, conn, serverTransport, wire, nextId, remoteLog, dropped>>

(***************************************************************************)
(* The inputs of the specifications.                                       *)
(***************************************************************************)
\* The file lists a search returns: absent, or up to MaxFiles files.
SearchReplies == {None} \cup {Some(fs) : fs \in SeqsUpTo(SearchFiles, MaxFiles)}

\* The mimeType the metadata reports: absent, or one of RemoteMimes.
MetaReplies == {None} \cup {Some(m) : m \in RemoteMimes}

\* The URIs of read-resource.
ReadUris == {ResourceUri(f) : f \in FileIds}

\* A page of the remote directory.
ListedFile(f, name, mime) == [id |-> f, name |-> name, mimeType |-> mime]
ListPages ==
  {[files |-> None, nextPageToken |-> None],
   [files |-> Some(<<ListedFile("f1", Some("budget-notes.txt"), Some(MimeTextPlain)),
                     ListedFile("f2", None, None)>>),
    nextPageToken |-> Some("page2")]}

\* The requests and the remote answers of the serving specification.
ServeMessages ==
  {ListToolsRequest,
   CallToolRequest("search", None),
   CallToolRequest("search", Some(<<"a">>)),
   CallToolRequest("delete", Some(<<"a">>)),
   ReadResourceRequest(ResourceUri("f1")),
   ListResourcesRequest(None),
   Malformed}
ServeSearchReplies == {None, Some(<<[name |-> Some("budget-notes.txt"), mimeType |-> Some(MimeTextPlain)]>>)}
ServeMetaReplies == {Some(MimeDocument), Some(MimeTextPlain)}
ServePayloads == {"payload1"}

(***************************************************************************)
(* The serving specification: the process in one of the three modes, after *)
(* startup; in pipe mode the Server is connected to the stdio transport.   *)
(***************************************************************************)
Init ==
  /\ mode \in Modes
  /\ conn = [c \in Conns |-> IF mode = "stdio" /\ c = 1 THEN "open" ELSE "absent"]
  /\ serverTransport = IF mode = "stdio" THEN 1 ELSE NoConn
  /\ wire = [c \in Conns |-> <<>>]
  /\ nextId = 1
  /\ calls = <<>>
  /\ sent = [c \in Conns |-> <<>>]
  /\ remoteLog = <<>>
  /\ dropped = [c \in Conns |-> <<>>]
  /\ Started(mode)

Next ==
  \/ \E c \in Conns, msg \in ServeMessages :
       nextId <= MaxRequests /\ ClientSend(c, msg)
  \/ \E c \in Conns : StdioReceive(c)
  \/ \E c \in Conns : WsConnection(c)
  \/ \E c \in Conns : WsMessage(c)
  \/ \E c \in Conns : WsClose(c)
  \/ \E c \in Conns : SseConnection(c)
  \/ \E c \in Conns : SsePost(c)
  \/ \E c \in Conns : SseClose(c)
  \/ \E id \in DOMAIN calls, filesOpt \in ServeSearchReplies : SearchReply(id, filesOpt)
  \/ \E id \in DOMAIN calls, mimeOpt \in ServeMetaReplies : MetaReply(id, mimeOpt)
  \/ \E id \in DOMAIN calls, data \in ServePayloads : ExportReply(id, data)
  \/ \E id \in DOMAIN calls, data \in ServePayloads : DownloadReply(id, data)
  \/ \E id \in DOMAIN calls, page \in ListPages : ListReply(id, page)
  \/ \E id \in DOMAIN calls : RemoteFailure(id)

Spec == Init /\ [][Next]_vars

(***************************************************************************)
(* The specification of pipe mode alone, with more requests in flight.     *)
(***************************************************************************)
PipeMessages ==
  {ListToolsRequest,
   CallToolRequest("search", None),
   CallToolRequest("delete", Some(<<"a">>)),
   ReadResourceRequest(ResourceUri("f1")),
   Malformed}

InitPipe == mode = "stdio" /\ Init

NextPipe ==
  \/ \E msg \in PipeMessages : nextId <= MaxPipeRequests /\ ClientSend(1, msg)
  \/ StdioReceive(1)
  \/ \E id \in DOMAIN calls, mimeOpt \in ServeMetaReplies : MetaReply(id, mimeOpt)
  \/ \E id \in DOMAIN calls, data \in ServePayloads : ExportReply(id, data)
  \/ \E id \in DOMAIN calls, data \in ServePayloads : DownloadReply(id, data)
  \/ \E id \in DOMAIN calls : RemoteFailure(id)

SpecPipe == InitPipe /\ [][NextPipe]_vars

(***************************************************************************)
(* The specification of one call-tool request in pipe mode: the request is *)
(* any tool name with any query, the remote answers with any file list.    *)
(***************************************************************************)
PipeWith(msg) ==
  /\ mode = "stdio"
  /\ conn = [c \in Conns |-> IF c = 1 THEN "open" ELSE "absent"]
  /\ serverTransport = 1
  /\ wire = [c \in Conns |-> IF c = 1 THEN <<WithId(msg, 1)>> ELSE <<>>]
  /\ nextId = 2
  /\ calls = <<>>
  /\ sent = [c \in Conns |-> <<>>]
  /\ remoteLog = <<>>
  /\ dropped = [c \in Conns |-> <<>>]
  /\ Started("stdio")

ToolNames == {"search", "delete"}
ToolQueries == {None} \cup {Some(q) : q \in QueryStrings}

InitCallTool ==
  \E name \in ToolNames, query \in ToolQueries : PipeWith(CallToolRequest(name, query))

NextCallTool ==
  \/ StdioReceive(1)
  \/ \E filesOpt \in SearchReplies : SearchReply(1, filesOpt)
  \/ RemoteFailure(1)

SpecCallTool == InitCallTool /\ [][NextCallTool]_vars

(***************************************************************************)
(* The specification of one read-resource request in pipe mode: the file   *)
(* has any mimeType of the universe or none, and any payload.              *)
(***************************************************************************)
InitRead == \E uri \in ReadUris : PipeWith(ReadResourceRequest(uri))

NextRead ==
  \/ StdioReceive(1)
  \/ \E mimeOpt \in MetaReplies : MetaReply(1, mimeOpt)
  \/ \E data \in Payloads : ExportReply(1, data)
  \/ \E data \in Payloads : DownloadReply(1, data)
  \/ RemoteFailure(1)

SpecRead == InitRead /\ [][NextRead]_vars

(***************************************************************************)
(* The specification of a client that pages through the remote directory   *)
(* in pipe mode: its first list-resources request carries any cursor, each *)
(* later one the nextCursor of the response before.  The remote directory  *)
(* holds MaxDirectory files; the remote answers a list call with the next  *)
(* 1..MaxPage files from the position its page token stands for, and with  *)
(* the token of the position after them unless the directory ends there.   *)
(***************************************************************************)
RemoteDirectory ==
  [i \in 1..MaxDirectory |->
     ListedFile("f" \o ToString(i),
                IF i = 2 THEN None ELSE Some("budget-notes.txt"),
                IF i = 2 THEN None ELSE Some(MimeTextPlain))]

\* The page token the remote gives for the position after k files.
PageToken(k) == "page@" \o ToString(k)

\* The pages the remote may answer a list call with; none for a token that
\* it has not given.
DirectoryPages(pageToken) ==
  LET starts == IF ~pageToken.some THEN {0}
                ELSE {k \in 1..(MaxDirectory - 1) : PageToken(k) = pageToken.v}
  IN  {[files |-> Some(SubSeq(RemoteDirectory, st[1] + 1, st[1] + st[2])),
        nextPageToken |-> IF st[1] + st[2] < MaxDirectory
                          THEN Some(PageToken(st[1] + st[2])) ELSE None] :
         st \in {x \in starts \X (1..MaxPage) : x[1] + x[2] <= MaxDirectory}}

\* The cursors of the first request: none, the empty string, the tokens of
\* the remote, and a string that is no token.
ListCursors ==
  {None, Some(""), Some("stale")} \cup {Some(PageToken(k)) : k \in 1..(MaxDirectory - 1)}

\* The client asks for the next page with the nextCursor it was given last.
ClientNextPage ==
  /\ sent[1] # <<>>
  /\ Len(sent[1]) = nextId - 1
  /\ LET last == sent[1][Len(sent[1])] IN
       /\ last.ok
       /\ last.result.nextCursor.some
       /\ ClientSend(1, ListResourcesRequest(last.result.nextCursor))

InitList == \E cursor \in ListCursors : PipeWith(ListResourcesRequest(cursor))

NextList ==
  \/ StdioReceive(1)
  \/ \E id \in DOMAIN calls :
       \E page \in DirectoryPages(remoteLog[id][1].pageToken) : ListReply(id, page)
  \/ \E id \in DOMAIN calls : RemoteFailure(id)
  \/ ClientNextPage

SpecList == InitList /\ [][NextList]_vars

(***************************************************************************)
(* The specification of the startup: the process is started with any       *)
(* arguments, any environment and a credentials directory that can or      *)
(* cannot be written; once it serves, clients connect and a request is     *)
(* sent on the first connection.                                           *)
(***************************************************************************)
StartMessages == {ReadResourceRequest(ResourceUri("f1"))}

InitStartup ==
  /\ argv \in SUBSET Args
  /\ env \in Environments
  /\ fsys \in [writable : BOOLEAN, file : {None}, temp : {None}]
  /\ auth = None
  /\ stderr = <<>>
  /\ process = Process("loaded")
  /\ listener = "unbound"
  /\ signals = 0
  /\ http = {}
  /\ adapterCalls = <<>>
  /\ mode = "none"
  /\ conn = [c \in Conns |-> "absent"]
  /\ serverTransport = NoConn
  /\ wire = [c \in Conns |-> <<>>]
  /\ nextId = 1
  /\ calls = <<>>
  /\ sent = [c \in Conns |-> <<>>]
  /\ remoteLog = <<>>
  /\ dropped = [c \in Conns |-> <<>>]

NextStartup ==
  \/ Main
  \/ AuthFlow
  \/ \E granted \in BOOLEAN, saved \in BOOLEAN : AuthResume(granted, saved)
  \/ SetupAuthentication
  \/ StdioConnect
  \/ HttpListen
  \/ \E c \in Conns : SseConnection(c)
  \/ \E c \in Conns : WsConnection(c)
  \/ \E msg \in StartMessages : nextId <= MaxStartRequests /\ ClientSend(1, msg)
  \/ StdioReceive(1)
  \/ \E id \in DOMAIN calls : RemoteFailure(id)

SpecStartup == InitStartup /\ [][NextStartup]_vars

(***************************************************************************)
(* The specification of remote failures in pipe mode: requests of the      *)
(* three handlers that call the remote API, and list-tools; each remote    *)
(* call is answered or rejected.                                           *)
(***************************************************************************)
RemoteMessages ==
  {ListToolsRequest,
   CallToolRequest("search", Some(<<"a">>)),
   ReadResourceRequest(ResourceUri("f1")),
   ListResourcesRequest(None)}

NextRemote ==
  \/ \E msg \in RemoteMessages : nextId <= MaxRemoteRequests /\ ClientSend(1, msg)
  \/ StdioReceive(1)
  \/ \E id \in DOMAIN calls, filesOpt \in ServeSearchReplies : SearchReply(id, filesOpt)
  \/ \E id \in DOMAIN calls, mimeOpt \in ServeMetaReplies : MetaReply(id, mimeOpt)
  \/ \E id \in DOMAIN calls, data \in ServePayloads : ExportReply(id, data)
  \/ \E id \in DOMAIN calls, data \in ServePayloads : DownloadReply(id, data)
  \/ \E id \in DOMAIN calls, page \in ListPages : ListReply(id, page)
  \/ \E id \in DOMAIN calls : RemoteFailure(id)

SpecRemote == InitPipe /\ [][NextRemote]_vars

(***************************************************************************)
(* The specification of one read-resource request with any URI: the        *)
(* well-formed ones, a bare id, another scheme, the prefix in the middle   *)
(* of other text or of an id, and the prefix alone.  The remote knows the  *)
(* files FileIds and rejects a call for any other id.                      *)
(***************************************************************************)
MalformedUris ==
  {<<"f1">>, <<"https://drive/", "f1">>, <<"x", UriScheme, "f1">>,
   <<"f", UriScheme, "1">>, <<UriScheme>>}

\* The remote has a file for the id of the metadata fetch of request id.
RemoteHasFile(id) ==
  /\ id \in DOMAIN remoteLog
  /\ MimeString(remoteLog[id][1].fileId) \in FileIds

InitReadAny == \E uri \in ReadUris \cup MalformedUris : PipeWith(ReadResourceRequest(uri))

NextReadAny ==
  \/ StdioReceive(1)
  \/ \E mimeOpt \in MetaReplies : RemoteHasFile(1) /\ MetaReply(1, mimeOpt)
  \/ \E data \in Payloads : ExportReply(1, data)
  \/ \E data \in Payloads : DownloadReply(1, data)
  \/ RemoteFailure(1)

SpecReadAny == InitReadAny /\ [][NextReadAny]_vars

(***************************************************************************)
(* The specification of the life of a serving process, in each of the      *)
(* three modes: clients connect, send well-formed and malformed messages   *)
(* and disconnect, the listener is asked for its plain routes, and         *)
(* termination signals arrive.                                             *)
(***************************************************************************)
LifeMessages == {ListToolsRequest, Malformed}

\* The requests for the plain routes: <<method, url>>.
PlainRequests ==
  {<<"GET", <<"/health">>>>, <<"OPTIONS", <<"/health">>>>, <<"GET", <<"/">>>>}

NextLifecycle ==
  \/ \E c \in Conns, msg \in LifeMessages :
       nextId <= MaxLifeRequests /\ ClientSend(c, msg)
  \/ StdioReceive(1)
  \/ \E c \in Conns : WsConnection(c)
  \/ \E c \in Conns : WsMessage(c)
  \/ \E c \in Conns : WsClose(c)
  \/ \E c \in Conns : SseConnection(c)
  \/ \E c \in Conns : SsePost(c)
  \/ \E c \in Conns : SseClose(c)
  \/ \E r \in PlainRequests : HttpRequest(r[1], r[2])
  \/ \E signal \in Signals : signals < MaxSignals /\ Signal(signal)
  \/ ForceExit

SpecLifecycle == Init /\ [][NextLifecycle]_vars

(***************************************************************************)
(* The specification of the shutdown of push-channel mode.  A timer that   *)
(* shutdown(signal) has set fires unless the process has exited before:    *)
(* weak fairness of ForceExit.                                             *)
(***************************************************************************)
InitShutdown == mode = "sse" /\ Init

NextShutdown ==
  \/ \E c \in Conns : SseConnection(c)
  \/ \E c \in Conns : SseClose(c)
  \/ \E r \in PlainRequests : HttpRequest(r[1], r[2])
  \/ \E signal \in Signals : signals < MaxSignals /\ Signal(signal)
  \/ ForceExit

SpecShutdown == InitShutdown /\ [][NextShutdown]_vars /\ WF_vars(ForceExit)

(***************************************************************************)
(* The process from setupAuthentication to its end, in each serving mode:  *)
(* the setup, the start of the transport or of the listener, and then      *)
(* every event of the serving process.                                     *)
(***************************************************************************)
InitServe ==
  /\ mode \in Modes
  /\ conn = [c \in Conns |-> "absent"]
  /\ serverTransport = NoConn
  /\ wire = [c \in Conns |-> <<>>]
  /\ nextId = 1
  /\ calls = <<>>
  /\ sent = [c \in Conns |-> <<>>]
  /\ remoteLog = <<>>
  /\ dropped = [c \in Conns |-> <<>>]
  /\ argv = (IF mode = "sse" THEN {"--sse"}
             ELSE IF mode = "websocket" THEN {"--websocket"} ELSE {})
  /\ env = FullEnv(None)
  /\ fsys = [writable |-> TRUE, file |-> None, temp |-> None]
  /\ auth = None
  /\ stderr = <<>>
  /\ process = Process("setup")
  /\ listener = "unbound"
  /\ signals = 0
  /\ http = {}
  /\ adapterCalls = <<>>

NextServe ==
  \/ SetupAuthentication
  \/ StdioConnect
  \/ HttpListen
  \/ \E c \in Conns, msg \in ServeMessages :
       nextId <= MaxServeRequests /\ ClientSend(c, msg)
  \/ StdioReceive(1)
  \/ \E c \in Conns : WsConnection(c)
  \/ \E c \in Conns : WsMessage(c)
  \/ \E c \in Conns : WsClose(c)
  \/ \E c \in Conns : SseConnection(c)
  \/ \E c \in Conns : SsePost(c)
  \/ \E c \in Conns : SseClose(c)
  \/ HttpRequest("GET", <<"/health">>)
  \/ \E id \in DOMAIN calls, filesOpt \in ServeSearchReplies : SearchReply(id, filesOpt)
  \/ \E id \in DOMAIN calls, mimeOpt \in ServeMetaReplies : MetaReply(id, mimeOpt)
  \/ \E id \in DOMAIN calls, data \in ServePayloads : ExportReply(id, data)
  \/ \E id \in DOMAIN calls, data \in ServePayloads : DownloadReply(id, data)
  \/ \E id \in DOMAIN calls, page \in ListPages : ListReply(id, page)
  \/ \E id \in DOMAIN calls : RemoteFailure(id)
  \/ \E signal \in Signals : signals < MaxSignals /\ Signal(signal)
  \/ ForceExit

SpecServe == InitServe /\ [][NextServe]_vars

(***************************************************************************)
(* Socket mode with the Server calling send and close of the adapter it is *)
(* connected to, at any moment of the life of the sockets.                 *)
(***************************************************************************)
InitAdapter == mode = "websocket" /\ Init

AdapterMessages == {Success(1, toolsResult), Failure(1, RemoteError)}

NextAdapter ==
  \/ \E c \in Conns : WsConnection(c)
  \/ \E c \in Conns : WsClosing(c)
  \/ \E c \in Conns : WsClose(c)
  \/ \E message \in AdapterMessages :
       Len(adapterCalls) < MaxAdapterCalls /\ AdapterSend(message)
  \/ Len(adapterCalls) < MaxAdapterCalls /\ AdapterClose
  \/ \E signal \in Signals : signals < MaxSignals /\ Signal(signal)

SpecAdapter == InitAdapter /\ [][NextAdapter]_vars

(***************************************************************************)
(* Properties.  Helpers over the recorded history.                         *)
(***************************************************************************)
\* The remote calls issued for request id.
RemoteCalls(id) == IF id \in DOMAIN remoteLog THEN remoteLog[id] ELSE <<>>
\* The responses written to any client.
Responses == UNION {{sent[c][i] : i \in DOMAIN sent[c]} : c \in Conns}
ResponsesTo(id) == {r \in Responses : r.id = id}
IsCallTool(id) == id \in DOMAIN calls /\ calls[id].req.method = "tools/call"
IsRead(id) == id \in DOMAIN calls /\ calls[id].req.method = "resources/read"

\* Every character escaped on its own, in one pass over the input.
RECURSIVE EscapeEach(_)
EscapeEach(s) ==
  IF s = <<>> THEN <<>>
  ELSE (CASE Head(s) = Backslash -> <<Backslash, Backslash>>
          [] Head(s) = Quote -> <<Backslash, Quote>>
          [] OTHER -> <<Head(s)>>) \o EscapeEach(Tail(s))

\* Reading s left to right, a backslash escaping the next character: s holds
\* no unescaped quote and does not end in a backslash that escapes nothing.
RECURSIVE ClosedLiteralBody(_)
ClosedLiteralBody(s) ==
  IF s = <<>> THEN TRUE
  ELSE IF Head(s) = Backslash
       THEN Len(s) >= 2 /\ ClosedLiteralBody(Tail(Tail(s)))
       ELSE Head(s) # Quote /\ ClosedLiteralBody(Tail(s))

\* C1: the remote query of a search is the template around the input with
\* every backslash doubled and every quote preceded by a backslash; the
\* escaped input holds no unescaped quote and no unpaired final backslash,
\* and each search issues that one remote call.
C1_EscapedQuerySafe ==
  \A id \in DOMAIN remoteLog :
    IsCallTool(id) =>
      LET call == remoteLog[id][1]
          userQuery == calls[id].req.query.v
      IN  /\ Len(remoteLog[id]) = 1
          /\ call.api = "files.list"
          /\ call.q = QueryPrefix \o EscapeEach(userQuery) \o <<Quote>>
          /\ ClosedLiteralBody(SubSeq(call.q, Len(QueryPrefix) + 1, Len(call.q) - 1))
          /\ call.q[Len(call.q)] = Quote

\* C1 witness: a query of a backslash followed by a quote was searched for.
C1_Witness ==
  \E id \in DOMAIN remoteLog :
    /\ IsCallTool(id)
    /\ calls[id].req.query.v = <<Backslash, Quote>>
    /\ remoteLog[id][1].q = QueryPrefix \o <<Backslash, Backslash, Backslash, Quote>> \o <<Quote>>

\* The content items of the successful read-resource responses.
ReadSuccesses == {r \in Responses : IsRead(r.id) /\ r.ok}

\* C2: a successful read-resource response has exactly one content item,
\* which carries a mimeType and exactly one of text and blob.
C2_ExactlyOnePayload ==
  \A r \in ReadSuccesses :
    /\ Len(r.result.contents) = 1
    /\ LET item == r.result.contents[1] IN
         /\ "mimeType" \in DOMAIN item
         /\ Len(item.mimeType) > 0
         /\ ("text" \in DOMAIN item) # ("blob" \in DOMAIN item)

\* C2 witness: a file without a mimeType was read and answered.
C2_Witness ==
  \E r \in ReadSuccesses :
    /\ calls[r.id].pc = "done"
    /\ ~calls[r.id].fileMime.some
    /\ "blob" \in DOMAIN r.result.contents[1]

\* C3: in a successful read-resource response the item has text if the
\* reported mimeType starts with text/ or is application/json, and blob
\* otherwise.
C3_PayloadFollowsMimeType ==
  \A r \in ReadSuccesses :
    LET item == r.result.contents[1]
        textual == item.mimeType[1] = "text/" \/ item.mimeType = <<"application/json">>
    IN  /\ textual => "text" \in DOMAIN item /\ "blob" \notin DOMAIN item
        /\ ~textual => "blob" \in DOMAIN item /\ "text" \notin DOMAIN item

\* The export format the documentation gives for each native document.
ExpectedExport(mime) ==
  IF mime = <<GoogleApps, ".document">> THEN <<"text/", "markdown">>
  ELSE IF mime = <<GoogleApps, ".spreadsheet">> THEN <<"text/", "csv">>
  ELSE IF mime = <<GoogleApps, ".drawing">> THEN <<"image/", "png">>
  ELSE <<"text/", "plain">>

Exports(id) ==
  {i \in DOMAIN RemoteCalls(id) : RemoteCalls(id)[i].api = "files.export"}
Downloads(id) ==
  {i \in DOMAIN RemoteCalls(id) : "alt" \in DOMAIN RemoteCalls(id)[i]}

\* C4: a file of the application/vnd.google-apps family is exported, never
\* downloaded, in the format its mimeType alone decides, and the response
\* reports that format; a file outside the family is never exported.
C4_ExportFormat ==
  \A id \in DOMAIN calls :
    IsRead(id) =>
      LET call == calls[id]
          native == call.fileMime.some /\ call.fileMime.v[1] = GoogleApps
      IN  IF native
          THEN /\ Downloads(id) = {}
               /\ Cardinality(Exports(id)) = 1
               /\ \A i \in Exports(id) :
                    RemoteCalls(id)[i].mimeType = ExpectedExport(call.fileMime.v)
               /\ \A r \in ResponsesTo(id) :
                    r.ok => r.result.contents[1].mimeType = ExpectedExport(call.fileMime.v)
          ELSE Exports(id) = {}

\* C4 witness: a drawing was exported as image/png and answered.
C4_Witness ==
  \E r \in ReadSuccesses :
    /\ calls[r.id].fileMime = Some(MimeDrawing)
    /\ r.result.contents[1].mimeType = MimePng
    /\ \E i \in Exports(r.id) : RemoteCalls(r.id)[i].mimeType = MimePng

\* C5: in push-channel and socket mode no well-formed request received on
\* an established connection is left without a handler invocation.
C5_RequestsReachHandlers ==
  mode \in {"sse", "websocket"} =>
    \A c \in Conns : \A i \in DOMAIN dropped[c] :
      dropped[c][i].wf => dropped[c][i].id \in DOMAIN calls

\* C6: the connection the Server is bound to stays bound as long as it is
\* open, whatever happens on other connections.
C6_ConnectionsStayBound ==
  [][\A c \in Conns :
       (conn[c] = "open" /\ serverTransport = c /\ conn'[c] = "open")
         => serverTransport' = c]_vars

\* C7 as stated: on one connection the responses are written in the order
\* of the requests.
C7_ResponsesInDeliveryOrder ==
  \A c \in Conns : \A i, j \in DOMAIN sent[c] :
    i < j => sent[c][i].id < sent[c][j].id

\* The handler of the request reaches a remote call.
AwaitsRemote(req) ==
  \/ req.method \in {"resources/read", "resources/list"}
  \/ req.method = "tools/call" /\ req.name.v = "search"
       /\ req.query.some /\ req.query.v # <<>>

\* C7 amended: handlers start in delivery order (a pending request is newer
\* than every request started on its connection), and a response is written
\* before that of an earlier request only if the earlier request's handler
\* awaits a remote call.
C7_OvertakingOnlyAwaiting ==
  /\ \A c \in Conns : \A i \in DOMAIN wire[c] : \A id \in DOMAIN calls :
       calls[id].conn = c => id < wire[c][i].id
  /\ \A c \in Conns : \A i, j \in DOMAIN sent[c] :
       (i < j /\ sent[c][i].id > sent[c][j].id)
         => AwaitsRemote(calls[sent[c][j].id].req)

\* C7 witness: list-tools, sent after a read-resource, was answered first.
C7_Witness ==
  \E c \in Conns : \E i, j \in DOMAIN sent[c] :
    /\ i < j
    /\ sent[c][i].id > sent[c][j].id
    /\ calls[sent[c][i].id].req.method = "tools/list"
    /\ calls[sent[c][j].id].req.method = "resources/read"
    /\ sent[c][j].ok

\* C8: a search without a query fails with the missing-query error and any
\* other tool with the tool-not-found error; neither issues a remote call or
\* returns content, and the connection stays open and bound.
C8_RejectedCallTool ==
  \A id \in DOMAIN calls :
    LET call == calls[id]
        noQuery == call.req.name.v = "search" /\ ~call.req.query.some
        otherTool == call.req.name.v # "search"
    IN  (IsCallTool(id) /\ (noQuery \/ otherTool)) =>
          /\ call.pc = "done"
          /\ RemoteCalls(id) = <<>>
          /\ ResponsesTo(id) =
               {Failure(id, IF otherTool THEN "Tool not found"
                            ELSE "Query parameter is required")}
          /\ conn[call.conn] = "open"
          /\ serverTransport = call.conn

\* C8 witness: both failures were answered, and then a later request.
C8_Witness ==
  \E c \in Conns :
    /\ Len(sent[c]) = 3
    /\ sent[c][1] = Failure(sent[c][1].id, "Query parameter is required")
    /\ sent[c][2] = Failure(sent[c][2].id, "Tool not found")
    /\ sent[c][3].ok
    /\ sent[c][3].id > sent[c][2].id

\* C9: every string given as query is searched for: one remote search is
\* issued and the argument is not rejected.
C9_EveryStringAccepted ==
  \A id \in DOMAIN calls :
    (IsCallTool(id) /\ calls[id].req.name.v = "search" /\ calls[id].req.query.some) =>
      /\ Len(RemoteCalls(id)) = 1
      /\ \A r \in ResponsesTo(id) : r.ok \/ r.error = RemoteError

\* The summary the documentation describes, built from the last file back.
ExpectedLine(file) ==
  (IF file.name.some THEN file.name.v ELSE "Unknown") \o " (" \o
  (IF file.mimeType.some THEN MimeString(file.mimeType.v) ELSE "Unknown type") \o ")"
RECURSIVE ExpectedLines(_)
ExpectedLines(files) ==
  IF files = <<>> THEN ""
  ELSE IF Len(files) = 1 THEN ExpectedLine(files[1])
  ELSE ExpectedLines(SubSeq(files, 1, Len(files) - 1)) \o "\n"
         \o ExpectedLine(files[Len(files)])
ExpectedSummary(files) ==
  "Found " \o ToString(Len(files)) \o " files:" \o "\n" \o ExpectedLines(files)

\* C10: a successful search returns isError false and one text item: the
\* count of the files, then one line `name (mimeType)` per file in backend
\* order, a file without a name shown as Unknown (and one without a mimeType
\* as Unknown type); without files the text is the header alone.
C10_SearchSummary ==
  \A r \in Responses :
    (IsCallTool(r.id) /\ r.ok) =>
      LET filesOpt == calls[r.id].res.v
          files == IF filesOpt.some THEN filesOpt.v ELSE <<>>
      IN  /\ r.result.isError = FALSE
          /\ Len(r.result.content) = 1
          /\ r.result.content[1].type = "text"
          /\ r.result.content[1].text = ExpectedSummary(files)
          /\ files = <<>> => r.result.content[1].text = "Found 0 files:\n"

\* C10 witness: the two files of the documented example, in backend order.
C10_Witness ==
  \E r \in Responses :
    /\ IsCallTool(r.id) /\ r.ok
    /\ calls[r.id].res.v =
         Some(<<[name |-> Some("Q1 budget.xlsx"), mimeType |-> Some(MimeSpreadsheet)],
                [name |-> Some("budget-notes.txt"), mimeType |-> Some(MimeTextPlain)]>>)
    /\ r.result.content[1].text =
         "Found 2 files:\nQ1 budget.xlsx (application/vnd.google-apps.spreadsheet)\nbudget-notes.txt (text/plain)"

\* The files the responses to the list-resources requests of connection c
\* name, in the order of the responses.
RECURSIVE ListedUris(_)
ListedUris(responses) ==
  IF responses = <<>> THEN <<>>
  ELSE (IF Head(responses).ok
        THEN [i \in DOMAIN Head(responses).result.resources |->
                Head(responses).result.resources[i].uri]
        ELSE <<>>) \o ListedUris(Tail(responses))
IsList(id) == id \in DOMAIN calls /\ calls[id].req.method = "resources/list"

\* C11: list-resources sends the cursor of the request, unchanged, as the
\* page token of its one remote call and no page token when the request has
\* no cursor, and returns the remote's next-page token, unchanged, as
\* nextCursor; a client that starts without a cursor and follows nextCursor
\* until it is absent is given every file of the remote directory once, in
\* the remote's order, as gdrive:///<id>.
C11_CursorPassThrough ==
  /\ \A id \in DOMAIN calls :
       IsList(id) =>
         /\ Len(RemoteCalls(id)) = 1
         /\ RemoteCalls(id)[1].pageToken = calls[id].req.cursor
         /\ \A r \in ResponsesTo(id) :
              r.ok => r.result.nextCursor = calls[id].res.v.nextPageToken
  /\ ( /\ sent[1] # <<>>
       /\ \A i \in DOMAIN sent[1] : sent[1][i].ok
       /\ ~calls[1].req.cursor.some
       /\ ~sent[1][Len(sent[1])].result.nextCursor.some )
     => ListedUris(sent[1]) =
          [i \in 1..MaxDirectory |-> ResourceUri(RemoteDirectory[i].id)]

\* The same with the first conjunct asked of the non-empty cursors only.
C11_NonEmptyCursorPassThrough ==
  /\ \A id \in DOMAIN calls :
       IsList(id) =>
         /\ Len(RemoteCalls(id)) = 1
         /\ (calls[id].req.cursor # Some("") =>
               RemoteCalls(id)[1].pageToken = calls[id].req.cursor)
         /\ \A r \in ResponsesTo(id) :
              r.ok => r.result.nextCursor = calls[id].res.v.nextPageToken
  /\ ( /\ sent[1] # <<>>
       /\ \A i \in DOMAIN sent[1] : sent[1][i].ok
       /\ ~calls[1].req.cursor.some
       /\ ~sent[1][Len(sent[1])].result.nextCursor.some )
     => ListedUris(sent[1]) =
          [i \in 1..MaxDirectory |-> ResourceUri(RemoteDirectory[i].id)]

\* The variables of the credential setup that are not set or are empty.
MissingVariables(e) == {n \in CredentialNameSet : ~e[n].some \/ e[n].v = ""}
Lines(output) == {output[i] : i \in DOMAIN output}
\* setupAuthentication has run.
SetupRan == mode \in Modes /\ process.state # "setup"

\* C12: when any of the five variables of the credential setup is not set
\* or is empty, createCredentialsFromEnv returns no record, writes no file
\* and prints a line naming each missing variable, whether or not the file
\* could be written; and after setupAuthentication no credentials file
\* exists, no client is configured from defaults, and the process has
\* exited with status 1, its error output naming each missing variable
\* whenever createCredentialsFromEnv was reached.
C12_MissingConfigFails ==
  MissingVariables(env) # {} =>
    /\ \A writable \in BOOLEAN :
         LET made == createCredentialsFromEnv(env, writable) IN
           /\ made.credentials = None
           /\ made.file = None
           /\ \A n \in MissingVariables(env) : ("- " \o n) \in Lines(made.output)
    /\ SetupRan =>
         /\ fsys.file = None
         /\ auth = None
         /\ process.state = "exited" /\ process.exit = Some(1)
         /\ "GDRIVE_CREDENTIALS_PATH" \notin MissingVariables(env) =>
              \A n \in MissingVariables(env) : ("- " \o n) \in Lines(stderr)

\* The setup has failed on an empty access token and a refresh token that
\* is not set.
C12_Witness ==
  /\ SetupRan
  /\ env["GDRIVE_ACCESS_TOKEN"] = Some("")
  /\ MissingVariables(env) = {"GDRIVE_ACCESS_TOKEN", "GDRIVE_REFRESH_TOKEN"}
  /\ process.exit = Some(1)
  /\ {"- GDRIVE_ACCESS_TOKEN", "- GDRIVE_REFRESH_TOKEN"} \subseteq Lines(stderr)
  /\ fsys.file = None

\* C13: once the main logic has run the process is in one of the four
\* modes, the one the arguments and MCP_TRANSPORT select in the order auth,
\* push channel, socket, pipe, and it stays in it; the auth flow starts no
\* listener and connects no transport, and pipe mode starts no listener.
C13_OneModeNeverSwitches ==
  /\ [](mode # "none" =>
          LET wantsAuth == "auth" \in argv
              wantsSse == "--sse" \in argv \/ env["MCP_TRANSPORT"] = Some("sse")
              wantsSocket == "--websocket" \in argv
                                \/ env["MCP_TRANSPORT"] = Some("websocket")
          IN  /\ mode \in {"auth", "sse", "websocket", "stdio"}
              /\ mode = "auth" <=> wantsAuth
              /\ mode = "sse" <=> ~wantsAuth /\ wantsSse
              /\ mode = "websocket" <=> ~wantsAuth /\ ~wantsSse /\ wantsSocket
              /\ mode = "stdio" <=> ~wantsAuth /\ ~wantsSse /\ ~wantsSocket
              /\ mode = "auth" =>
                   /\ listener = "unbound"
                   /\ serverTransport = NoConn
                   /\ \A c \in Conns : conn[c] = "absent"
              /\ mode = "stdio" => listener = "unbound")
  /\ [][mode # "none" => mode' = mode]_vars

\* The push channel serves a client although --websocket is given too and
\* MCP_TRANSPORT asks for the socket.
C13_Witness ==
  /\ argv = {"--sse", "--websocket"}
  /\ env["MCP_TRANSPORT"] = Some("websocket")
  /\ mode = "sse"
  /\ listener = "listening"
  /\ conn[1] = "open"

\* The four values are set and the credentials file holds the two tokens.
SetupSucceeded ==
  /\ \A n \in {"GDRIVE_ACCESS_TOKEN", "GDRIVE_REFRESH_TOKEN",
               "GDRIVE_CLIENT_ID", "GDRIVE_CLIENT_SECRET"} :
       env[n].some /\ env[n].v # ""
  /\ fsys.file.some
  /\ fsys.file.v.access_token = env["GDRIVE_ACCESS_TOKEN"].v
  /\ fsys.file.v.refresh_token = env["GDRIVE_REFRESH_TOKEN"].v
  /\ auth.some
  /\ auth.v.client_id = env["GDRIVE_CLIENT_ID"].v
  /\ auth.v.client_secret = env["GDRIVE_CLIENT_SECRET"].v
  /\ auth.v.credentials = fsys.file.v

\* C20: in the three serving modes a transport is connected, a listener
\* bound, a client connected or a remote call issued only after the
\* credential setup succeeded (the four values set, the file written, the
\* client configured); and when one of the four values is missing or the
\* file cannot be written, the process has exited with status 1 after the
\* setup, with no listener bound and no transport connected.
C20_NothingBeforeCredentials ==
  mode \in Modes =>
    /\ ( \/ serverTransport # NoConn
         \/ listener # "unbound"
         \/ remoteLog # <<>>
         \/ \E c \in Conns : conn[c] # "absent"
         \/ process.state \in {"starting", "running"} ) => SetupSucceeded
    /\ ( /\ SetupRan
         /\ \/ \E n \in {"GDRIVE_ACCESS_TOKEN", "GDRIVE_REFRESH_TOKEN",
                         "GDRIVE_CLIENT_ID", "GDRIVE_CLIENT_SECRET"} :
                 ~env[n].some \/ env[n].v = ""
            \/ ~fsys.writable )
       => /\ process.state = "exited" /\ process.exit = Some(1)
          /\ listener = "unbound"
          /\ serverTransport = NoConn
          /\ remoteLog = <<>>

\* A remote call has been issued in pipe mode, after the setup.
C20_Witness ==
  /\ mode = "stdio"
  /\ remoteLog # <<>>
  /\ SetupSucceeded
  /\ serverTransport = 1

\* The setup failed because the file could not be written, all values set.
C20_WitnessWriteFails ==
  /\ SetupRan
  /\ MissingVariables(env) = {}
  /\ ~fsys.writable
  /\ process.exit = Some(1)
  /\ WriteError \in Lines(stderr)

\* Request id has failed on a remote call: its handler is done, it had
\* called the remote and holds no remote answer to return.
RemoteFailed(id) ==
  /\ id \in DOMAIN calls
  /\ calls[id].pc = "done"
  /\ RemoteCalls(id) # <<>>
  /\ ~calls[id].res.some

\* C14: a request whose remote call was rejected is answered with that
\* error and with nothing else, on a connection that stays open in a
\* process that keeps running; the step in which the call is rejected
\* issues no remote call (no retry) and leaves every other invocation and
\* the pending requests as they are; a finished request issues no further
\* remote call; and a pending request is still delivered to its handler.
C14_RemoteFailurePropagates ==
  /\ [](\A id \in DOMAIN calls :
          RemoteFailed(id) =>
            /\ ResponsesTo(id) = {Failure(id, RemoteError)}
            /\ Running
            /\ conn[calls[id].conn] = "open")
  /\ [][\A id \in DOMAIN calls :
          /\ (calls[id].pc # "done" /\ RemoteFailed(id)') =>
               /\ remoteLog' = remoteLog
               /\ \A j \in DOMAIN calls \ {id} : calls'[j] = calls[j]
               /\ wire' = wire
          /\ calls[id].pc = "done" =>
               /\ calls'[id] = calls[id]
               /\ RemoteCalls(id)' = RemoteCalls(id)
               /\ ResponsesTo(id)' = ResponsesTo(id)]_vars
  /\ [](\A c \in Conns :
          (mode = "stdio" /\ conn[c] = "open" /\ wire[c] # <<>>) =>
             ENABLED StdioReceive(c))

\* After the metadata fetch of request 1 was rejected, a read-resource
\* request sent later on the same connection has been answered with content.
C14_Witness ==
  /\ RemoteFailed(1)
  /\ IsRead(2)
  /\ Len(sent[1]) = 2
  /\ sent[1][1] = Failure(1, RemoteError)
  /\ sent[1][2].id = 2 /\ sent[1][2].ok

\* A URI of the form gdrive:///<id> with a non-empty id.
WellFormedUri(uri) == Len(uri) = 2 /\ uri[1] = UriScheme /\ uri[2] # ""

\* C15: a read-resource request whose URI is not gdrive:/// followed by a
\* file id is never answered with content, and for a URI gdrive:///<id>
\* every remote call of the request names exactly <id>.
C15_MalformedUriFails ==
  \A id \in DOMAIN calls :
    IsRead(id) =>
      LET uri == calls[id].req.uri.v IN
        IF WellFormedUri(uri)
        THEN \A i \in DOMAIN RemoteCalls(id) : RemoteCalls(id)[i].fileId = <<uri[2]>>
        ELSE \A r \in ResponsesTo(id) : ~r.ok

\* The half of C15 about the well-formed URIs.
C15_WellFormedUriId ==
  \A id \in DOMAIN calls :
    (IsRead(id) /\ WellFormedUri(calls[id].req.uri.v)) =>
      \A i \in DOMAIN RemoteCalls(id) :
        RemoteCalls(id)[i].fileId = <<calls[id].req.uri.v[2]>>

OpenConns == {c \in Conns : conn[c] = "open"}
Healthy == [status |-> 200, body |-> Some([status |-> "healthy"])]

\* C16: in push-channel and in socket mode every answer to GET /health is
\* status 200 with a body whose status is healthy; while the listener
\* listens the request is answered, whatever the connections; and a step
\* that answers a plain route issues no remote call and starts no handler.
C16_HealthAlwaysHealthy ==
  /\ [](\A r \in http :
          (r.method = "GET" /\ r.url = <<"/health">>) => r.response = Healthy)
  /\ []((mode \in {"sse", "websocket"} /\ Running /\ listener = "listening") =>
          ENABLED HttpRequest("GET", <<"/health">>))
  /\ [][http' # http => (remoteLog' = remoteLog /\ calls' = calls)]_vars

\* GET /health has been answered by the socket listener with two clients
\* connected.
C16_Witness ==
  /\ mode = "websocket"
  /\ OpenConns = {1, 2}
  /\ [method |-> "GET", url |-> <<"/health">>, response |-> Healthy] \in http

\* C17: in push-channel mode, once a termination signal has arrived the
\* listener is closed and no new connection is made; the process exits with
\* code 0 only in the step that leaves no connection open (the signal with
\* none open, or the end of the last open one) and with code 1 only by the
\* timer while a connection is still open; and it does exit, however many
\* connections are open and however many signals arrive.
C17_GracefulShutdown ==
  /\ []((mode = "sse" /\ signals > 0) => listener = "closed")
  /\ [][(mode = "sse" /\ signals > 0) =>
          \A c \in Conns : conn[c] = "absent" => conn'[c] = "absent"]_vars
  /\ [][(mode = "sse" /\ Running /\ process'.state = "exited") =>
          /\ signals' > 0
          /\ process'.exit \in {Some(0), Some(1)}
          /\ process'.exit = Some(0) =>
               /\ Cardinality(OpenConns) <= 1
               /\ (OpenConns = {} => signals' = signals + 1)
               /\ (OpenConns # {} => signals' = signals)
          /\ process'.exit = Some(1) =>
               (signals > 0 /\ OpenConns # {} /\ signals' = signals)]_vars
  /\ (mode = "sse" /\ signals > 0) ~> (process.state = "exited")

\* Two signals have arrived with two clients connected, and the timer has
\* ended the process.
C17_Witness ==
  /\ mode = "sse"
  /\ signals = 2
  /\ process.exit = Some(1)
  /\ \A c \in {1, 2} : conn[c] = "closed"

\* C18, as claimed: in pipe and in socket mode the process has exited once
\* a termination signal has arrived.
C18_ImmediateExit ==
  (mode \in {"stdio", "websocket"} /\ signals > 0) => process.state = "exited"

\* C18, amended: in pipe mode the signal ends the process at once, with the
\* client's pipe open.  In socket mode the signal closes the listener; the
\* process exits, with code 0, in the step that leaves no connection open,
\* and until then it keeps running with its connections untouched: no
\* timer ends it.
C18_PipeExitsSocketDrains ==
  /\ []((mode = "stdio" /\ signals > 0) =>
          (process.state = "exited" /\ process.signal.some /\ signals = 1))
  /\ []((mode = "websocket" /\ signals > 0) =>
          /\ listener = "closed"
          /\ Running <=> OpenConns # {}
          /\ ~Running => (process.state = "exited" /\ process.exit = Some(0)))
  /\ [][(mode = "websocket" /\ signals' > signals /\ OpenConns # {}) =>
          (process' = process /\ conn' = conn)]_vars
  /\ [][(mode = "websocket" /\ Running /\ process'.state = "exited") =>
          (signals' > 0 /\ Cardinality(OpenConns) <= 1)]_vars

\* The socket server is still running after two signals, a client connected.
C18_Witness ==
  /\ mode = "websocket"
  /\ signals = 2
  /\ Running
  /\ conn[1] = "open"

\* The receipt of the oldest pending message of connection c.
Receive(c) == StdioReceive(c) \/ WsMessage(c) \/ SsePost(c)

AuthMissing ==
  \/ unset(env["GDRIVE_CLIENT_ID"]) \/ unset(env["GDRIVE_CLIENT_SECRET"])
  \/ unset(env["GDRIVE_CREDENTIALS_PATH"])

\* C21: when the OAuth flow has ended, temp-oauth.json does not exist: the
\* flow that awaits authenticate() has written the descriptor, and every
\* end it takes from there (authenticate() rejects, the write of the
\* credentials file fails, both succeed) leaves no descriptor; and with the
\* client id, the client secret or the credentials path missing the flow
\* exits with status 1 and leaves the file system as it was.
C21_DescriptorRemoved ==
  /\ []((mode = "auth" /\ process.state = "exited") => ~fsys.temp.some)
  /\ [][process.state = "authenticating" =>
          /\ fsys.temp.some
          /\ process'.state = "exited"
          /\ ~fsys'.temp.some]_vars
  /\ [][(process.state = "auth" /\ AuthMissing) =>
          /\ process'.state = "exited"
          /\ process'.exit = Some(1)
          /\ fsys' = fsys
          /\ fsys.file = None /\ fsys.temp = None]_vars

\* The flow has ended in its catch after the descriptor was written, once
\* because authenticate() rejected and once because the write failed.
C21_Witness ==
  /\ mode = "auth"
  /\ process.state = "exited"
  /\ process.exit = Some(0)
  /\ stderr = <<AuthError>>
  /\ fsys.file = None
  /\ fsys.temp = None

C21_WitnessWriteFails ==
  /\ mode = "auth"
  /\ process.state = "exited"
  /\ stderr = <<AuthFsError>>
  /\ fsys.writable
  /\ fsys.temp = None

C21_WitnessMissing ==
  /\ mode = "auth"
  /\ process.state = "exited"
  /\ process.exit = Some(1)
  /\ AuthMissing
  /\ fsys.file = None /\ fsys.temp = None

(***************************************************************************)
(* The credentials file and the client while serving                       *)
(***************************************************************************)
\* What setupAuthentication leaves: the file and the client of google.options.
SetupFile == Some(credentialsOf(env))
SetupClient == Some(OAuth2(env, credentialsOf(env)))

\* C22: the credentials file and the client given to google.options are
\* written by setupAuthentication and by no step after it: every step of a
\* process that has left the setup (a request and its handler, a connection
\* opening or ending, a frame that is no JSON, a plain route, a signal, the
\* exit) leaves both as the setup made them.
C22_CredentialsWrittenOnce ==
  /\ [](process.state # "setup" => (fsys.file = SetupFile /\ auth = SetupClient))
  /\ [][process.state # "setup" => (fsys' = fsys /\ auth' = auth)]_vars
  /\ [][(fsys' # fsys \/ auth' # auth) =>
          /\ process.state = "setup"
          /\ fsys.file = None /\ auth = None
          /\ fsys'.file = SetupFile /\ auth' = SetupClient]_vars

\* Pipe mode: a search was answered by the remote and a signal has ended the
\* process; the file and the client are those of the setup.
C22_Witness ==
  /\ mode = "stdio"
  /\ process.state = "exited"
  /\ signals > 0
  /\ \E id \in DOMAIN calls :
       /\ calls[id].pc = "done"
       /\ calls[id].req.name = Some("search")
       /\ RemoteCalls(id) # <<>>
       /\ ResponsesTo(id) # {}
  /\ fsys.file = SetupFile
  /\ auth = SetupClient

\* Socket mode: a frame that is no JSON was dropped, the connection has
\* ended and the shutdown has exited.
C22_WitnessSocket ==
  /\ mode = "websocket"
  /\ process.state = "exited"
  /\ signals > 0
  /\ \E c \in Conns : conn[c] = "closed" /\ \E i \in DOMAIN dropped[c] : ~dropped[c][i].wf
  /\ fsys.file = SetupFile
  /\ auth = SetupClient

(***************************************************************************)
(* The socket adapter on a socket that is not open                         *)
(***************************************************************************)
\* The step is a call of the adapter, on a socket with the given readyState.
AdapterCalled(op, states) ==
  /\ adapterCalls' # adapterCalls
  /\ AdapterCall(op) = adapterCalls'[Len(adapterCalls')]
  /\ conn[serverTransport] \in states

\* C23: in socket mode send and close of the adapter act on the socket only
\* while it is open.  A send on a socket that is closing or closed writes
\* nothing to any socket and changes no connection, nor the process or its
\* listener; a close on such a socket changes nothing either; on an open
\* socket send writes the message to that socket alone and close starts its
\* closing handshake.  No step writes to a socket that is not open.
C23_AdapterActsOnlyWhileOpen ==
  /\ [][\A c \in Conns : conn[c] # "open" => sent'[c] = sent[c]]_vars
  /\ [][(AdapterCalled("send", {"closing", "closed"}) \/
          AdapterCalled("close", {"closing", "closed"})) =>
          UNCHANGED <<mode, conn, serverTransport, wire, nextId, calls, sent,
                      remoteLog, dropped, argv, env, fsys, auth, stderr, process,
                      listener, signals, http>>]_vars
  /\ [][AdapterCalled("send", {"open"}) =>
          /\ Len(sent'[serverTransport]) = Len(sent[serverTransport]) + 1
          /\ \A c \in Conns \ {serverTransport} : sent'[c] = sent[c]
          /\ UNCHANGED <<conn, process, listener>>]_vars
  /\ [][AdapterCalled("close", {"open"}) =>
          /\ conn' = [conn EXCEPT ![serverTransport] = "closing"]
          /\ UNCHANGED <<sent, process, listener>>]_vars

\* The adapter was asked to send on a socket that had closed and to close
\* it again, with another socket open: nothing was written, the other
\* socket is open and the process runs.
C23_Witness ==
  /\ mode = "websocket"
  /\ Running
  /\ Len(adapterCalls) = 2
  /\ adapterCalls[1].op = "send" /\ adapterCalls[1].readyState = "closed"
  /\ adapterCalls[2].op = "close" /\ adapterCalls[2].readyState = "closed"
  /\ \A c \in Conns : sent[c] = <<>>
  /\ conn[serverTransport] = "closed"
  /\ \E c \in Conns \ {serverTransport} : conn[c] = "open"

\* The same on a socket in its closing handshake.
C23_WitnessClosing ==
  /\ mode = "websocket"
  /\ Running
  /\ \E i \in DOMAIN adapterCalls :
       adapterCalls[i].op = "send" /\ adapterCalls[i].readyState = "closing"
  /\ \A c \in Conns : sent[c] = <<>>
  /\ conn[serverTransport] = "closing"

====
